---- MODULE Spec2Model ----
(***************************************************************************)
(* Model of the asynchronous task subsystem of getv-ffmpeg (src/server.js, *)
(* the first server of the file: lines 1-934): the task registry, the      *)
(* executor runDownloadTask, the fetcher downloadFile, the Poll and        *)
(* Fetch-result handlers and the hourly cleanup sweeper.                   *)
(*                                                                         *)
(* Node runs every handler and every event callback to completion, and     *)
(* drains the promise reactions it queued before the next callback starts. *)
(* One action of the model is therefore one callback together with the     *)
(* continuations of the awaits it settles.                                 *)
(***************************************************************************)
EXTENDS Integers, Sequences, FiniteSets, TLC

\* ---------------------------------------------------------------- bounds
MaxTasks == 2        \* number of task ids uuidv4() hands out in a run
MaxNow == 3          \* number of sweeper intervals (hours) that elapse
MaxSends == 2        \* concurrent res.download transfers per task
MaxHops == 2         \* redirects counted per fetch (the count saturates here)
MaxSec == 1          \* largest time, in seconds, a trim range names
MaxFormats == 3      \* most entries of info.formats of a /parse call

\* ------------------------------------------------------ program constants
MAX_FILE_SIZE == 1   \* size cap, in chunks (500 MiB in the source)
maxAge == 2          \* sweeper threshold, in sweeper intervals (2 h / 1 h)

TaskIds == 1..MaxTasks
NoFile == 0 - 1
Suffixes == {"input", "video", "audio", "output"}
Slots == {"input", "video", "audio"}
Null == "null"

\* Lines 36-41: String.includes of four texts.
needsYtdlp(url) ==
    \E i \in DOMAIN url : url[i] \in {"youtube.com", "youtu.be", "googlevideo.com", ".m3u8"}

\* The request bodies the submit handler is given.  A URL is the sequence of
\* the pieces of its text, the empty sequence an absent (or empty) URL.
NoUrl == <<>>
Urls ==
    {NoUrl,
     <<"https://", "example.com", "/a", ".mp4">>,
     <<"https://", "www.", "youtube.com", "/watch">>,
     <<"https://", "youtu.be", "/x">>,
     <<"https://", "r1.", "googlevideo.com", "/videoplayback">>,
     <<"https://", "example.com", "/live", ".m3u8">>,
     <<"https://", "example.com", "/a", ".m3u8", ".mp4">>}
PlainUrls ==
    {NoUrl, <<"https://", "example.com", "/a", ".mp4">>,
     <<"https://", "www.", "youtube.com", "/watch">>}
ActionNames == {"undefined", "download", "merge", "trim", "extract-audio", "other"}
Undefined == "undefined"
NoTime == 0 - 1
NoTrim == [start |-> NoTime, end |-> NoTime]
Trims == {NoTrim} \cup [start : 0..MaxSec, end : 0..MaxSec]
AudioFormats == {Undefined, "mp3", "m4a", "aac", "wav", "flac"}
\* formatId is the sequence of the pieces of its text ("180" is 18 and 0),
\* the empty sequence an absent formatId.
NoFormat == <<>>
FormatIds == {NoFormat, <<"18">>, <<"36">>, <<"137">>, <<"248">>, <<"18", "0">>}
\* audioUrl is read for merge only, trim for trim only, audioFormat for
\* extract-audio only and formatId for a download through yt-dlp only (lines
\* 726, 762, 789, 813, 865).
Bodies ==
    {b \in [videoUrl : Urls, audioUrl : Urls, action : ActionNames,
            trim : Trims, audioFormat : AudioFormats, formatId : FormatIds] :
        /\ b.action \notin {"merge", "undefined"} => b.audioUrl = NoUrl
        /\ b.formatId # NoFormat => b.action = "download" /\ needsYtdlp(b.videoUrl)
        /\ b.action # "trim" => b.trim = NoTrim
        /\ b.action # "extract-audio" => b.audioFormat = Undefined}

\* The bodies the synchronous endpoints are given: startTime and endTime of
\* /trim are the fields of trim, outputFormat, format and audioFormat are
\* format.  Each field varies for the endpoints that read it.
SyncOps == {"merge", "trim", "convert", "extract-audio", "probe", "download"}
Times == {NoTime} \cup 0..MaxSec
ConvertFormats == {Undefined, "mp4", "webm", "mp3", "m4a", "avi"}
Qualities == {Undefined, "high", "medium", "low", "ultra", "constructor"}
SyncAction(b) ==
    IF b.op # "download" THEN b.op
    ELSE IF b.action = Undefined THEN "download" ELSE b.action
SyncBodies ==
    {b \in [op : SyncOps, videoUrl : Urls, audioUrl : Urls, action : ActionNames,
            trim : [start : Times, end : Times],
            format : AudioFormats \cup ConvertFormats, quality : Qualities,
            formatId : FormatIds] :
        /\ b.op # "download" => b.action = Undefined
        /\ b.formatId # NoFormat => SyncAction(b) = "download" /\ needsYtdlp(b.videoUrl)
        /\ SyncAction(b) # "merge" => b.audioUrl = NoUrl
        /\ SyncAction(b) # "trim" => b.trim = NoTrim
        /\ b.op = "download" => b.trim \in Trims
        /\ b.op = "convert" => b.format \in ConvertFormats
        /\ SyncAction(b) = "extract-audio" => b.format \in AudioFormats
        /\ b.op # "convert" /\ SyncAction(b) # "extract-audio" => b.format = Undefined
        /\ b.op # "convert" => b.quality = Undefined}

VARIABLES
    tasks,     \* keys of the Map `tasks`
    obj,       \* the task objects, by id (kept by the executor's closure too)
    ex,        \* each executor's position and the action it was given
    fetch,     \* the downloadFile calls of each task, by temp-file slot
    fs,        \* TEMP_DIR: last-modified time of each file, NoFile if absent
    sends,     \* res.download transfers in flight, per task
    resp,      \* the response the last handler sent
    now,       \* sweeper intervals elapsed
    nextId,    \* next fresh task id
    crashed,   \* an exception escaped a callback: the process is gone
    trace,     \* history: every value written to task.status, in order
    served,    \* history: transfers of the artifact that ended without error
    runs,      \* history: how often each stage of a task was started
    failure    \* history: the first error a component of the task reported

vars == <<tasks, obj, ex, fetch, fs, sends, resp, now, nextId, crashed, trace, served, runs, failure>>

\* ------------------------------------------------------------ error texts
MsgUnsupported == "unsupported operation"
MsgMissingUrl == "missing videoUrl"
MsgNoTask == "task does not exist"
MsgNoFile == "file does not exist"
MsgSize == "file size exceeds limit"
MsgTimeout == "download timeout"
MsgNet == "ECONNRESET"
MsgFfmpeg == "ffmpeg exited with code 1"
MsgYtdlpSpawn == "yt-dlp spawn failed"
MsgYtdlpExit == "yt-dlp failed (code 1)"
MsgSpawn == "spawn yt-dlp ENOENT"
MsgDownload == "download failed"
MsgFfprobe == "ffprobe exited with code 1"
MsgMissingAudio == "missing videoUrl or audioUrl"
MsgMissingTime == "missing startTime or endTime"
MsgMissingParseUrl == "missing url"
MsgJson == "JSON parse failed"
MsgYtdlpParse == "yt-dlp failed"
HttpMsg(code) == IF code = 404 THEN "HTTP 404" ELSE "HTTP 500"
MsgStatus(status) ==
    CASE status = "pending" -> "task status: pending"
      [] status = "processing" -> "task status: processing"
      [] status = "error" -> "task status: error"
      [] OTHER -> "task status: done"

\* ------------------------------------------------------------- functions

\* A promise that every resolve and reject settles anew.
SettleAgain(p, outcome) == outcome

\* Promise: resolve and reject act on a pending promise only.
Settle(p, outcome) == IF p = "pending" THEN outcome ELSE p

\* The promises a task's executor awaits in its fetch stage.
Required(action) == IF action = "merge" THEN {"video", "audio"} ELSE {"input"}

\* A combinator that is fulfilled by the first fetch to complete.
AllStateFirst(f, action) ==
    IF \E s \in Required(action) : f[s].p = "fulfilled" THEN "fulfilled"
    ELSE IF \E s \in Required(action) : f[s].p = "rejected" THEN "rejected"
    ELSE "pending"

\* Promise.all over the required fetches of one task.
AllState(f, action) ==
    IF \E s \in Required(action) : f[s].p = "rejected" THEN "rejected"
    ELSE IF \A s \in Required(action) : f[s].p = "fulfilled" THEN "fulfilled"
    ELSE "pending"

\* The continuation of `await` runs when the awaited promise changes state;
\* Settle lets that happen once.
Resumes(before, after) == before # after

NoFetch == [kind |-> "none", url |-> NoUrl, x |-> "idle", p |-> "none", downloaded |-> 0, hops |-> 0,
            open |-> 0]
NoRuns == [fetch |-> 0, pipeline |-> 0, extract |-> 0]
NewTask == [status |-> "pending", outputFile |-> Null, filename |-> Null, error |-> Null]
NoSettings == [crf |-> Undefined, preset |-> Undefined]
NoCommand == [options |-> {}, start |-> NoTime, duration |-> NoTime, crf |-> Null, preset |-> Null]
NoEx == [pc |-> "idle", op |-> "none", action |-> Undefined, trim |-> NoTrim,
         format |-> Undefined, quality |-> Undefined, settings |-> NoSettings,
         command |-> NoCommand, formatId |-> NoFormat, formatArg |-> NoFormat,
         info |-> <<>>, formats |-> <<>>]
NoResp == [op |-> "none", id |-> 0, code |-> 0, status |-> Null, error |-> Null]

\* fs.unlinkSync of a file that exists (lines 115, 122, 133, 146).
unlinkSync(disk, id, suf) == [disk EXCEPT ![<<id, suf>>] = NoFile]

\* A cleanup that is handed the video file only.
cleanupFilesVideoOnly(disk, id, sufs) ==
    [q \in TaskIds \X Suffixes |-> IF q[1] = id /\ q[2] \in sufs \ {"audio"} THEN NoFile ELSE disk[q]]

\* cleanupFiles (lines 161-171): every listed file that exists is unlinked.
cleanupFiles(disk, id, sufs) ==
    [q \in TaskIds \X Suffixes |-> IF q[1] = id /\ q[2] \in sufs THEN NoFile ELSE disk[q]]

Init ==
    /\ tasks = {}
    /\ obj = [i \in TaskIds |-> [status |-> "none", outputFile |-> Null, filename |-> Null, error |-> Null]]
    /\ ex = [i \in TaskIds |-> NoEx]
    /\ fetch = [i \in TaskIds |-> [s \in Slots |-> NoFetch]]
    /\ fs = [q \in TaskIds \X Suffixes |-> NoFile]
    /\ sends = [i \in TaskIds |-> 0]
    /\ resp = NoResp
    /\ now = 0
    /\ nextId = 1
    /\ crashed = FALSE
    /\ trace = [i \in TaskIds |-> <<>>]
    /\ served = [i \in TaskIds |-> 0]
    /\ runs = [i \in TaskIds |-> NoRuns]
    /\ failure = [i \in TaskIds |-> Null]

\* ------------------------------------------------------------- executor
Path(id, suf) == <<id, suf>>
Touch(disk, id, suf) == [disk EXCEPT ![Path(id, suf)] = now]
Exists(disk, id, suf) == disk[Path(id, suf)] # NoFile
Response(op, id, code, status, error) ==
    [op |-> op, id |-> id, code |-> code, status |-> status, error |-> error]
NoteFailure(id, msg) == [failure EXCEPT ![id] = IF @ = Null THEN msg ELSE @]

\* downloadFile up to its first suspension: a URL needsYtdlp accepts spawns
\* yt-dlp, any other opens the write stream and issues the GET.  hops is a
\* history: the redirects that led to the request that awaits its response,
\* counted up to MaxHops.  open counts the writers of the path: the write
\* streams created (line 103) and not closed, and the yt-dlp subprocesses
\* spawned on it (line 50) that have not ended; the call adds one to those
\* that were there.
StartFetch(url, hops, open) ==
    IF needsYtdlp(url)
    THEN [kind |-> "ytdlp", url |-> url, x |-> "proc", p |-> "pending", downloaded |-> 0, hops |-> 0,
          open |-> open + 1]
    ELSE [kind |-> "direct", url |-> url, x |-> "wait", p |-> "pending", downloaded |-> 0, hops |-> hops,
          open |-> open + 1]
StartDisk(disk, id, suf, url) == IF needsYtdlp(url) THEN disk ELSE Touch(disk, id, suf)

\* A write through a descriptor that is open: it reaches the directory entry
\* only while the entry exists.
Write(disk, id, suf) == IF Exists(disk, id, suf) THEN Touch(disk, id, suf) ELSE disk

\* An exception that escapes a callback ends the process: the file has no
\* handler for uncaught exceptions.
Crash ==
    /\ crashed' = TRUE
    /\ resp' = NoResp
    /\ UNCHANGED <<tasks, obj, ex, fetch, fs, sends, now, nextId, trace, served, runs, failure>>

\* An executor that stores the output path when it starts the stage.
ClaimWithPath(t, suf) == [t EXCEPT !.status = "processing", !.outputFile = suf]

\* An executor that does not mark the task as processing.
ClaimSkipped(t, suf) == t

\* task.status = 'processing' (line 716).  The executor computes the output
\* path of the stage it starts (lines 723, 754, 765, 791, 815) and stores it
\* in the task only when the stage has ended.
Claim(t, suf) == [t EXCEPT !.status = "processing"]

\* A catch block that records a generic text.
CatchGeneric(t, msg) == [t EXCEPT !.status = "error", !.error = "task failed"]

\* A catch block that records the text and leaves the status as it is.
CatchNoStatus(t, msg) == [t EXCEPT !.error = msg]

\* catch (error): lines 844-848.
Catch(t, msg) == [t EXCEPT !.status = "error", !.error = msg]

\* The end of the try block: lines 751-752, 756-757, 784-785, 807-808, 833-834, 841.
Done(t, suf, name) == [t EXCEPT !.outputFile = suf, !.filename = name, !.status = "done"]

\* Lines 504, 515-520: quality defaults to high; qualitySettings[quality] is
\* a property lookup on an object literal, which finds the three tiers and
\* also what every object inherits (constructor is one such name, a function
\* without crf and preset); the || falls back to medium when nothing is found.
qualitySettings ==
    [high |-> [crf |-> "18", preset |-> "slow"],
     medium |-> [crf |-> "23", preset |-> "medium"],
     low |-> [crf |-> "28", preset |-> "fast"]]
Inherited == {"constructor"}
Settings(quality) ==
    LET q == IF quality = Undefined THEN "high" ELSE quality
    IN  IF q \in DOMAIN qualitySettings THEN qualitySettings[q]
        ELSE IF q \in Inherited THEN NoSettings
        ELSE qualitySettings["medium"]

\* The ffmpeg command each branch builds from the closure e: the output
\* options, and for a trim the start and the duration.  Lines 413-425,
\* 471-481, 529-572, 611-635, 773-779, 796-803, 819-829, 1760-1772,
\* 1790-1797, 1814-1833.
Options(e) ==
    CASE e.action = "merge" -> {"-c:v copy", "-c:a aac", "-map 0:v:0", "-map 1:a:0", "-shortest"}
      [] e.action = "trim" -> {"-c copy", "-avoid_negative_ts make_zero"}
      [] e.action = "convert" /\ e.format = "mp4" ->
            {"-c:v libx264", "-crf", "-preset", "-c:a aac", "-b:a 192k"}
      [] e.action = "convert" /\ e.format = "webm" ->
            {"-c:v libvpx-vp9", "-crf", "-b:v 0", "-c:a libopus", "-b:a 128k"}
      [] e.action = "convert" /\ e.format = "mp3" -> {"-vn", "-c:a libmp3lame", "-b:a 320k"}
      [] e.action = "convert" /\ e.format = "m4a" -> {"-vn", "-c:a aac", "-b:a 256k"}
      [] e.action = "extract-audio" /\ e.format = "mp3" -> {"-vn", "-c:a libmp3lame", "-b:a"}
      [] e.action = "extract-audio" /\ e.format \in {"m4a", "aac"} -> {"-vn", "-c:a aac", "-b:a"}
      [] e.action = "extract-audio" /\ e.format = "wav" /\ e.op # "download" ->
            {"-vn", "-c:a pcm_s16le"}
      [] e.action = "extract-audio" -> {"-vn"}
      [] OTHER -> {}
Command(e) ==
    [options |-> Options(e),
     start |-> IF e.action = "trim" THEN e.trim.start ELSE NoTime,
     duration |-> IF e.action = "trim" THEN e.trim.end - e.trim.start ELSE NoTime,
     crf |-> IF "-crf" \in Options(e) THEN e.settings.crf ELSE Null,
     preset |-> IF "-preset" \in Options(e) THEN e.settings.preset ELSE Null]

\* The files the catch block of each synchronous endpoint cleans up: lines
\* 438, 493, 583, 646, 696; the catch of the synchronous /download (lines
\* 1845-1848) cleans up nothing.
CatchFiles(op) ==
    CASE op = "merge" -> {"video", "audio", "output"}
      [] op \in {"trim", "convert", "extract-audio"} -> {"input", "output"}
      [] op = "probe" -> {"input"}
      [] OTHER -> {}

\* The catch block of a synchronous endpoint: cleanup, then the 500 response.
SyncCatch(id, disk, msg) ==
    /\ fs' = cleanupFiles(disk, id, CatchFiles(ex[id].op))
    /\ resp' = Response(ex[id].op, id, 500, Null, msg)
    /\ ex' = [ex EXCEPT ![id].pc = "end"]

\* res.download(...) of a synchronous endpoint: the transfer of the result
\* to the client starts.
Deliver(id) ==
    /\ resp' = Response(ex[id].op, id, 200, Null, Null)
    /\ ex' = [ex EXCEPT ![id].pc = "send"]

\* An executor whose failure is recorded in every registered task.
TaskAfterFetchShared(id, after, msg) ==
    /\ resp' = NoResp
    /\ UNCHANGED sends
    /\ IF after = "rejected"
       THEN /\ obj' = [i \in TaskIds |-> IF i \in tasks THEN Catch(obj[i], msg) ELSE obj[i]]
            /\ ex' = [ex EXCEPT ![id].pc = "end"]
            /\ trace' = [trace EXCEPT ![id] = Append(@, obj'[id].status)]
            /\ UNCHANGED runs
       ELSE IF ex[id].action = "download"
       THEN /\ obj' = [obj EXCEPT ![id] = Done(@, "input", "video.mp4")]
            /\ ex' = [ex EXCEPT ![id].pc = "end"]
            /\ trace' = [trace EXCEPT ![id] = Append(@, obj'[id].status)]
            /\ UNCHANGED runs
       ELSE /\ ex' = [ex EXCEPT ![id].pc = "ffmpeg", ![id].command = Command(ex[id])]
            /\ runs' = [runs EXCEPT ![id].pipeline = @ + 1]
            /\ UNCHANGED <<obj, trace>>

\* runDownloadTask after its fetch stage: lines 756-757, 772, 795, 828, 844.
TaskAfterFetch(id, after, msg) ==
    /\ resp' = NoResp
    /\ UNCHANGED sends
    /\ IF after = "rejected"
       THEN /\ obj' = [obj EXCEPT ![id] = Catch(@, msg)]
            /\ ex' = [ex EXCEPT ![id].pc = "end"]
            /\ trace' = [trace EXCEPT ![id] = Append(@, obj'[id].status)]
            /\ UNCHANGED runs
       ELSE IF ex[id].action = "download"
       THEN /\ obj' = [obj EXCEPT ![id] = Done(@, "input", "video.mp4")]
            /\ ex' = [ex EXCEPT ![id].pc = "end"]
            /\ trace' = [trace EXCEPT ![id] = Append(@, obj'[id].status)]
            /\ UNCHANGED runs
       ELSE /\ ex' = [ex EXCEPT ![id].pc = "ffmpeg", ![id].command = Command(ex[id])]
            /\ runs' = [runs EXCEPT ![id].pipeline = @ + 1]
            /\ UNCHANGED <<obj, trace>>

\* A synchronous endpoint after its fetch stage: lines 412, 470, 566, 629,
\* 669 and, in the synchronous /download, 1741, 1759, 1789, 1828.
SyncAfterFetch(id, after, disk2, msg) ==
    /\ UNCHANGED <<obj, trace, sends>>
    /\ IF after = "rejected"
       THEN SyncCatch(id, disk2, msg) /\ UNCHANGED runs
       ELSE IF ex[id].op = "download" /\ ex[id].action = "download"
       THEN Deliver(id) /\ fs' = disk2 /\ UNCHANGED runs
       ELSE IF ex[id].op = "probe"
       THEN /\ ex' = [ex EXCEPT ![id].pc = "ffprobe"]
            /\ fs' = disk2
            /\ resp' = NoResp
            /\ UNCHANGED runs
       ELSE /\ ex' = [ex EXCEPT ![id].pc = "ffmpeg", ![id].command = Command(ex[id])]
            /\ runs' = [runs EXCEPT ![id].pipeline = @ + 1]
            /\ fs' = disk2
            /\ resp' = NoResp

\* The reaction of the caller of downloadFile to the fetches of request id
\* having become f2 with the disk at disk2; msg is the reason of the
\* rejection, if this is one.
AfterFetch(id, f2, disk2, msg) ==
    LET a == ex[id].action
        before == AllState(fetch[id], a)
        after == AllState(f2, a)
    IN  /\ fetch' = [fetch EXCEPT ![id] = f2]
        /\ IF ~Resumes(before, after)
           THEN /\ fs' = disk2
                /\ resp' = NoResp
                /\ UNCHANGED <<obj, ex, trace, runs, sends>>
           ELSE IF ex[id].op = "task"
           THEN TaskAfterFetch(id, after, msg) /\ fs' = disk2
           ELSE SyncAfterFetch(id, after, disk2, msg)

\* The audio format the executor uses: line 813.
Fmt(audioFormat) == IF audioFormat = Undefined THEN "mp3" ELSE audioFormat

\* The selector of the yt-dlp run of a download task: lines 725-731.
hasAudioFormats == {<<"18">>, <<"22">>, <<"36">>, <<"17">>, <<"5">>, <<"6">>}
formatArg(formatId) ==
    IF formatId # NoFormat
    THEN IF formatId \in hasAudioFormats THEN formatId ELSE formatId \o <<"+bestaudio/best">>
    ELSE <<"bestvideo+bestaudio/best">>

\* The selector of the first yt-dlp run of the synchronous /download, lines
\* 1660-1674 (startsWith of three texts), and of its second run, line 1718.
formatArgSync(formatId) ==
    IF formatId # NoFormat
    THEN IF formatId[1] \in {"137", "22", "18"} THEN formatId
         ELSE formatId \o <<"+bestaudio/best">>
    ELSE <<"bestvideo+bestaudio/best">>
formatArgRetry(formatId) == IF formatId # NoFormat THEN formatId ELSE <<"best">>

\* The closure of a runDownloadTask call.
TaskEx(pc, body) ==
    [pc |-> pc, op |-> "task", action |-> body.action, trim |-> body.trim,
     format |-> Fmt(body.audioFormat), quality |-> Undefined, settings |-> NoSettings,
     command |-> NoCommand, formatId |-> body.formatId,
     formatArg |-> IF pc = "extract" THEN formatArg(body.formatId) ELSE NoFormat,
     info |-> <<>>, formats |-> <<>>]

\* POST /download with runDownloadTask up to its first await.
Submit(body) ==
    LET action == IF body.action = Undefined THEN "download" ELSE body.action
        id == nextId
    IN  /\ ~crashed
        /\ IF body.videoUrl = NoUrl
           THEN /\ resp' = Response("submit", 0, 400, Null, MsgMissingUrl)
                /\ UNCHANGED <<tasks, obj, ex, fetch, fs, nextId, trace, runs, failure>>
           ELSE IF action = "merge" /\ body.audioUrl = NoUrl
           THEN /\ resp' = Response("submit", 0, 400, Null, MsgUnsupported)
                /\ UNCHANGED <<tasks, obj, ex, fetch, fs, nextId, trace, runs, failure>>
           ELSE /\ nextId <= MaxTasks
                /\ nextId' = nextId + 1
                /\ tasks' = tasks \cup {id}
                /\ resp' = Response("submit", id, 200, Null, Null)
                /\ IF body.action = "download" /\ needsYtdlp(body.videoUrl)
                   THEN /\ obj' = [obj EXCEPT ![id] = Claim(NewTask, "output")]
                        /\ ex' = [ex EXCEPT ![id] = TaskEx("extract", body)]
                        /\ trace' = [trace EXCEPT ![id] = <<NewTask.status, obj'[id].status>>]
                        /\ runs' = [runs EXCEPT ![id].extract = @ + 1]
                        /\ UNCHANGED <<fetch, fs, failure>>
                   ELSE IF body.action = "merge" /\ body.audioUrl # NoUrl
                   THEN /\ obj' = [obj EXCEPT ![id] = Claim(NewTask, "output")]
                        /\ ex' = [ex EXCEPT ![id] = TaskEx("fetch", body)]
                        /\ trace' = [trace EXCEPT ![id] = <<NewTask.status, obj'[id].status>>]
                        /\ runs' = [runs EXCEPT ![id].fetch = @ + 1]
                        /\ fetch' = [fetch EXCEPT ![id]["video"] = StartFetch(body.videoUrl, 0, 0),
                                                  ![id]["audio"] = StartFetch(body.audioUrl, 0, 0)]
                        /\ fs' = StartDisk(StartDisk(fs, id, "video", body.videoUrl),
                                           id, "audio", body.audioUrl)
                        /\ UNCHANGED failure
                   ELSE IF \/ body.action = "download"
                           \/ body.action = "trim" /\ body.trim # NoTrim
                           \/ body.action = "extract-audio"
                   THEN /\ obj' = [obj EXCEPT ![id] = Claim(NewTask, IF body.action = "download" THEN "input" ELSE "output")]
                        /\ ex' = [ex EXCEPT ![id] = TaskEx("fetch", body)]
                        /\ trace' = [trace EXCEPT ![id] = <<NewTask.status, obj'[id].status>>]
                        /\ runs' = [runs EXCEPT ![id].fetch = @ + 1]
                        /\ fetch' = [fetch EXCEPT ![id]["input"] = StartFetch(body.videoUrl, 0, 0)]
                        /\ fs' = StartDisk(fs, id, "input", body.videoUrl)
                        /\ UNCHANGED failure
                   ELSE /\ obj' = [obj EXCEPT ![id] =
                                     Catch(Claim(NewTask, Null), MsgUnsupported)]
                        /\ ex' = [ex EXCEPT ![id] = TaskEx("end", body)]
                        /\ trace' = [trace EXCEPT ![id] = <<NewTask.status,
                                                            Claim(NewTask, Null).status,
                                                            obj'[id].status>>]
                        /\ failure' = NoteFailure(id, MsgUnsupported)
                        /\ UNCHANGED <<fetch, fs, runs>>
        /\ UNCHANGED <<sends, now, crashed, served>>

\* ---------------------------------------------------------- downloadFile
\* Each action below is one callback of downloadFile for the fetch of request
\* id into slot s.  A fetch that is waiting or streaming is within 30 s of its
\* last byte (line 151), so its file is never old enough to be swept.
Direct(id, s, xs) == fetch[id][s].kind = "direct" /\ fetch[id][s].x \in xs

Hop(n) == IF n < MaxHops THEN n + 1 ELSE MaxHops

\* A redirect that leaves the write stream of the hop open.
FetchRedirectKeepsStream(id, s, location) ==
    /\ ~crashed
    /\ Direct(id, s, {"wait"})
    /\ IF ~Exists(fs, id, s)
       THEN Crash
       ELSE /\ fetch' = [fetch EXCEPT ![id][s] = StartFetch(location, Hop(@.hops), @.open)]
            /\ fs' = StartDisk(unlinkSync(fs, id, s), id, s, location)
            /\ resp' = NoResp
            /\ UNCHANGED <<tasks, obj, ex, sends, now, nextId, crashed, trace, served, runs, failure>>

\* Lines 113-118: a 301/302 closes and unlinks the file and calls downloadFile
\* on the Location, whose promise settles this one.  unlinkSync throws when
\* the file is gone (the caller's catch block cleaned it up meanwhile).
FetchRedirect(id, s, location) ==
    /\ ~crashed
    /\ Direct(id, s, {"wait"})
    /\ IF ~Exists(fs, id, s)
       THEN Crash
       ELSE /\ fetch' = [fetch EXCEPT ![id][s] = StartFetch(location, Hop(@.hops), @.open - 1)]
            /\ fs' = StartDisk(unlinkSync(fs, id, s), id, s, location)
            /\ resp' = NoResp
            /\ UNCHANGED <<tasks, obj, ex, sends, now, nextId, crashed, trace, served, runs, failure>>

\* Lines 120-125: any other status than 200.
FetchStatus(id, s, code) ==
    /\ ~crashed
    /\ Direct(id, s, {"wait"})
    /\ IF ~Exists(fs, id, s)
       THEN Crash
       ELSE /\ AfterFetch(id,
                          [fetch[id] EXCEPT ![s].x = "closed", ![s].hops = 0,
                                            ![s].open = @ - 1,
                                            ![s].p = Settle(@, "rejected")],
                          unlinkSync(fs, id, s), HttpMsg(code))
            /\ failure' = NoteFailure(id, HttpMsg(code))
            /\ UNCHANGED <<tasks, now, nextId, crashed, served>>

\* Line 127: a 200 response is piped into the file.
FetchOk(id, s) ==
    /\ ~crashed
    /\ Direct(id, s, {"wait"})
    /\ fetch' = [fetch EXCEPT ![id][s].x = "body", ![id][s].hops = 0]
    /\ resp' = NoResp
    /\ UNCHANGED <<tasks, obj, ex, fs, sends, now, nextId, crashed, trace, served, runs, failure>>

\* Lines 129-136: one chunk.  The pipe has written it; the count is checked
\* against the cap.  Nothing ends the response when the cap is exceeded: the
\* file is closed and unlinked and further chunks still arrive, and then
\* unlinkSync throws in the callback.
FetchData(id, s) ==
    /\ ~crashed
    /\ Direct(id, s, {"body", "over", "drain"})
    /\ IF fetch[id][s].downloaded + 1 > MAX_FILE_SIZE
       THEN IF ~Exists(fs, id, s)
            THEN /\ crashed' = TRUE
                 /\ fetch' = [fetch EXCEPT ![id][s].downloaded = @ + 1]
                 /\ resp' = NoResp
                 /\ UNCHANGED <<obj, ex, fs, sends, trace, runs, failure>>
            ELSE /\ AfterFetch(id,
                               [fetch[id] EXCEPT ![s].x = "over",
                                                 ![s].downloaded = @ + 1,
                                                 ![s].open = IF fetch[id][s].x = "body" THEN @ - 1 ELSE @,
                                                 ![s].p = Settle(@, "rejected")],
                               unlinkSync(fs, id, s), MsgSize)
                 /\ failure' = NoteFailure(id, MsgSize)
                 /\ UNCHANGED crashed
       ELSE /\ fetch' = [fetch EXCEPT ![id][s].downloaded = @ + 1]
            /\ fs' = Write(fs, id, s)
            /\ resp' = NoResp
            /\ UNCHANGED <<obj, ex, sends, crashed, trace, runs, failure>>
    /\ UNCHANGED <<tasks, now, nextId, served>>

\* Lines 138-141: the write stream finished (the response ended, or close()
\* ended the stream after the cap was exceeded).
FetchFinish(id, s) ==
    /\ ~crashed
    /\ Direct(id, s, {"body", "over"})
    /\ AfterFetch(id,
                  [fetch[id] EXCEPT ![s].x = IF @ = "body" THEN "closed" ELSE "drain",
                                    ![s].open = IF fetch[id][s].x = "body" THEN @ - 1 ELSE @,
                                    ![s].p = Settle(@, "fulfilled")],
                  IF fetch[id][s].x = "body" THEN Write(fs, id, s) ELSE fs, Null)
    /\ UNCHANGED <<tasks, now, nextId, crashed, served, failure>>

\* Lines 144-148: the request failed (also after the timeout destroyed it).
FetchError(id, s) ==
    /\ ~crashed
    /\ Direct(id, s, {"wait", "destroyed"})
    /\ AfterFetch(id,
                  [fetch[id] EXCEPT ![s].x = "closed", ![s].hops = 0,
                                    ![s].open = @ - 1,
                                    ![s].p = Settle(@, "rejected")],
                  unlinkSync(fs, id, s), MsgNet)
    /\ failure' = NoteFailure(id, MsgNet)
    /\ UNCHANGED <<tasks, now, nextId, crashed, served>>

\* Lines 151-154: 30 s without traffic.  The request is destroyed and the
\* promise rejected; the file is left to the 'error' event, which follows
\* only when no response had arrived: the stream of a response that stalled
\* stays open.
FetchTimeout(id, s) ==
    /\ ~crashed
    /\ Direct(id, s, {"wait", "body"})
    /\ AfterFetch(id,
                  [fetch[id] EXCEPT ![s].x = IF @ = "wait" THEN "destroyed" ELSE "closed",
                                    ![s].hops = 0,
                                    ![s].p = Settle(@, "rejected")],
                  fs, MsgTimeout)
    /\ failure' = NoteFailure(id, MsgTimeout)
    /\ UNCHANGED <<tasks, now, nextId, crashed, served>>

\* downloadWithYtdlp, lines 71-74: the subprocess could not be started.
YtdlpError(id, s) ==
    /\ ~crashed
    /\ fetch[id][s].kind = "ytdlp" /\ fetch[id][s].x = "proc"
    /\ AfterFetch(id,
                  [fetch[id] EXCEPT ![s].x = "closed", ![s].open = @ - 1,
                                    ![s].p = Settle(@, "rejected")],
                  fs, MsgYtdlpSpawn)
    /\ failure' = NoteFailure(id, MsgYtdlpSpawn)
    /\ UNCHANGED <<tasks, now, nextId, crashed, served>>

\* downloadWithYtdlp, lines 76-83: the subprocess exited; wrote says whether
\* it left a file at the output path.
YtdlpClose(id, s, code, wrote) ==
    /\ ~crashed
    /\ fetch[id][s].kind = "ytdlp" /\ fetch[id][s].x = "proc"
    /\ AfterFetch(id,
                  [fetch[id] EXCEPT ![s].x = "closed", ![s].open = @ - 1,
                                    ![s].p = Settle(@, IF code = 0 THEN "fulfilled" ELSE "rejected")],
                  IF wrote THEN Touch(fs, id, s) ELSE fs, MsgYtdlpExit)
    /\ failure' = IF code = 0 THEN failure ELSE NoteFailure(id, MsgYtdlpExit)
    /\ UNCHANGED <<tasks, now, nextId, crashed, served>>

\* ------------------------------------------- subprocesses of the request
\* yt-dlp of a download could not be started: lines 747, 1699, 1725.
ExtractError(id) ==
    /\ ~crashed
    /\ ex[id].pc \in {"extract", "extract2"}
    /\ LET msg == IF ex[id].pc = "extract" THEN MsgYtdlpSpawn ELSE MsgSpawn
       IN  /\ failure' = NoteFailure(id, msg)
           /\ IF ex[id].op = "task"
              THEN /\ obj' = [obj EXCEPT ![id] = Catch(@, msg)]
                   /\ ex' = [ex EXCEPT ![id].pc = "end"]
                   /\ trace' = [trace EXCEPT ![id] = Append(@, obj'[id].status)]
                   /\ resp' = NoResp
                   /\ UNCHANGED fs
              ELSE SyncCatch(id, fs, msg) /\ UNCHANGED <<obj, trace>>
    /\ UNCHANGED <<tasks, fetch, sends, now, nextId, crashed, served, runs>>

\* yt-dlp of a download exited: lines 748-752 of the task; lines 1703-1732
\* of the synchronous /download, which runs yt-dlp once more when the first
\* run exited with 0 and left no file.
ExtractClose(id, code, wrote) ==
    /\ ~crashed
    /\ ex[id].pc \in {"extract", "extract2"}
    /\ LET disk2 == IF wrote THEN Touch(fs, id, "output") ELSE fs
           msg == IF ex[id].pc = "extract" THEN MsgYtdlpExit ELSE MsgDownload
       IN  IF ex[id].op = "task"
           THEN /\ fs' = disk2
                /\ ex' = [ex EXCEPT ![id].pc = "end"]
                /\ resp' = NoResp
                /\ UNCHANGED runs
                /\ IF code = 0
                   THEN /\ obj' = [obj EXCEPT ![id] = Done(@, "output", "video.mp4")]
                        /\ trace' = [trace EXCEPT ![id] = Append(@, obj'[id].status)]
                        /\ UNCHANGED failure
                   ELSE /\ obj' = [obj EXCEPT ![id] = Catch(@, msg)]
                        /\ trace' = [trace EXCEPT ![id] = Append(@, obj'[id].status)]
                        /\ failure' = NoteFailure(id, msg)
           ELSE /\ UNCHANGED <<obj, trace>>
                /\ IF code # 0
                   THEN /\ SyncCatch(id, disk2, msg)
                        /\ failure' = NoteFailure(id, msg)
                        /\ UNCHANGED runs
                   ELSE IF ex[id].pc = "extract" /\ ~Exists(disk2, id, "output")
                   THEN /\ ex' = [ex EXCEPT ![id].pc = "extract2",
                                            ![id].formatArg = formatArgRetry(ex[id].formatId)]
                        /\ runs' = [runs EXCEPT ![id].extract = @ + 1]
                        /\ fs' = disk2
                        /\ resp' = NoResp
                        /\ UNCHANGED failure
                   ELSE /\ Deliver(id)
                        /\ fs' = disk2
                        /\ UNCHANGED <<runs, failure>>
    /\ UNCHANGED <<tasks, fetch, sends, now, nextId, crashed, served>>

\* The name the result of a task is served under: lines 785, 808, 834.
AudioName(fmt) ==
    CASE fmt = "mp3" -> "audio.mp3"
      [] fmt = "m4a" -> "audio.m4a"
      [] fmt = "aac" -> "audio.aac"
      [] fmt = "wav" -> "audio.wav"
      [] OTHER -> "audio.flac"
Filename(e) == IF e.action = "extract-audio" THEN AudioName(e.format) ELSE "video.mp4"

\* ffmpeg 'end' (lines 777, 801, 829; 423, 479, 569, 632 and 1770, 1795,
\* 1831 of the synchronous endpoints) and the rest of the branch: a task
\* cleans its inputs up and is finished with the output of the run, a
\* synchronous endpoint starts res.download of the output.
FfmpegEnd(id) ==
    /\ ~crashed
    /\ ex[id].pc = "ffmpeg"
    /\ IF ex[id].op = "task"
       THEN /\ fs' = cleanupFiles(Touch(fs, id, "output"), id, Required(ex[id].action))
            /\ obj' = [obj EXCEPT ![id] = Done(@, "output", Filename(ex[id]))]
            /\ ex' = [ex EXCEPT ![id].pc = "end"]
            /\ trace' = [trace EXCEPT ![id] = Append(@, obj'[id].status)]
            /\ resp' = NoResp
       ELSE /\ fs' = Touch(fs, id, "output")
            /\ Deliver(id)
            /\ UNCHANGED <<obj, trace>>
    /\ UNCHANGED <<tasks, fetch, sends, now, nextId, crashed, served, runs, failure>>

\* ffmpeg 'error'; wrote says whether the run left a partial output behind.
FfmpegError(id, wrote) ==
    /\ ~crashed
    /\ ex[id].pc = "ffmpeg"
    /\ failure' = NoteFailure(id, MsgFfmpeg)
    /\ LET disk2 == IF wrote THEN Touch(fs, id, "output") ELSE fs
       IN  IF ex[id].op = "task"
           THEN /\ fs' = disk2
                /\ obj' = [obj EXCEPT ![id] = Catch(@, MsgFfmpeg)]
                /\ ex' = [ex EXCEPT ![id].pc = "end"]
                /\ trace' = [trace EXCEPT ![id] = Append(@, obj'[id].status)]
                /\ resp' = NoResp
           ELSE SyncCatch(id, disk2, MsgFfmpeg) /\ UNCHANGED <<obj, trace>>
    /\ UNCHANGED <<tasks, fetch, sends, now, nextId, crashed, served, runs>>

\* The callback of ffprobe in POST /probe, lines 669-698.
ProbeEnd(id, err) ==
    /\ ~crashed
    /\ ex[id].pc = "ffprobe"
    /\ IF err
       THEN SyncCatch(id, fs, MsgFfprobe) /\ failure' = NoteFailure(id, MsgFfprobe)
       ELSE /\ fs' = cleanupFiles(fs, id, {"input"})
            /\ resp' = Response("probe", id, 200, Null, Null)
            /\ ex' = [ex EXCEPT ![id].pc = "end"]
            /\ UNCHANGED failure
    /\ UNCHANGED <<tasks, obj, fetch, sends, now, nextId, crashed, trace, served, runs>>

\* The files the res.download callback of a synchronous endpoint cleans up:
\* lines 432, 487, 577, 640 and 1730, 1742, 1776, 1801, 1837.
SentFiles(e, f) ==
    CASE e.action = "merge" -> {"video", "audio", "output"}
      [] e.action = "download" -> IF f["input"].kind = "none" THEN {"output"} ELSE {"input"}
      [] OTHER -> {"input", "output"}

\* The callback of res.download of a synchronous endpoint.
DownloadEnd(id) ==
    /\ ~crashed
    /\ ex[id].pc = "send"
    /\ fs' = cleanupFiles(fs, id, SentFiles(ex[id], fetch[id]))
    /\ ex' = [ex EXCEPT ![id].pc = "end"]
    /\ resp' = NoResp
    /\ UNCHANGED <<tasks, obj, fetch, sends, now, nextId, crashed, trace, served, runs, failure>>

\* ------------------------------------------------- synchronous endpoints
\* The closure of a synchronous handler.  The synchronous /download defaults
\* action to download and audioFormat to mp3 (line 1642); /extract-audio
\* defaults format to mp3 (line 594) and /convert outputFormat to mp4 and
\* quality to high (line 504).
SyncEx(pc, body) ==
    [pc |-> pc, op |-> body.op,
     action |-> IF body.op # "download" THEN body.op
                ELSE IF body.action = Undefined THEN "download" ELSE body.action,
     trim |-> body.trim,
     format |-> IF body.format # Undefined THEN body.format
                ELSE IF body.op = "convert" THEN "mp4"
                ELSE IF SyncAction(body) = "extract-audio" THEN "mp3" ELSE Undefined,
     quality |-> body.quality,
     settings |-> IF body.op = "convert" THEN Settings(body.quality) ELSE NoSettings,
     command |-> NoCommand, formatId |-> body.formatId,
     formatArg |-> IF pc = "extract" THEN formatArgSync(body.formatId) ELSE NoFormat,
     info |-> <<>>, formats |-> <<>>]

\* The parameter check of each synchronous handler: lines 391, 451-457,
\* 506, 596, 659, 1644; Null when the request passes.
SyncRefusal(body) ==
    IF body.op = "merge" /\ (body.videoUrl = NoUrl \/ body.audioUrl = NoUrl)
    THEN MsgMissingAudio
    ELSE IF body.videoUrl = NoUrl
    THEN MsgMissingUrl
    ELSE IF body.op = "trim" /\ (body.trim.start = NoTime \/ body.trim.end = NoTime)
    THEN MsgMissingTime
    ELSE Null

\* Whether the synchronous /download has a branch for the request: lines
\* 1652, 1749, 1783, 1808; line 1843 otherwise.
SyncBranch(body) ==
    \/ body.op # "download"
    \/ SyncAction(body) \in {"download", "extract-audio"}
    \/ SyncAction(body) = "merge" /\ body.audioUrl # NoUrl
    \/ SyncAction(body) = "trim" /\ body.trim # NoTrim

\* A synchronous handler up to its first await.
SyncRequest(body) ==
    LET id == nextId
        e == SyncEx("fetch", body)
    IN  /\ ~crashed
        /\ IF SyncRefusal(body) # Null
           THEN /\ resp' = Response(body.op, 0, 400, Null, SyncRefusal(body))
                /\ UNCHANGED <<ex, fetch, fs, nextId, runs>>
           ELSE IF ~SyncBranch(body)
           THEN /\ resp' = Response(body.op, 0, 400, Null, MsgUnsupported)
                /\ UNCHANGED <<ex, fetch, fs, nextId, runs>>
           ELSE /\ nextId <= MaxTasks
                /\ nextId' = nextId + 1
                /\ resp' = NoResp
                /\ IF body.op = "download" /\ e.action = "download" /\ needsYtdlp(body.videoUrl)
                   THEN /\ ex' = [ex EXCEPT ![id] = SyncEx("extract", body)]
                        /\ runs' = [runs EXCEPT ![id].extract = @ + 1]
                        /\ UNCHANGED <<fetch, fs>>
                   ELSE IF e.action = "merge"
                   THEN /\ ex' = [ex EXCEPT ![id] = e]
                        /\ runs' = [runs EXCEPT ![id].fetch = @ + 1]
                        /\ fetch' = [fetch EXCEPT ![id]["video"] = StartFetch(body.videoUrl, 0, 0),
                                                  ![id]["audio"] = StartFetch(body.audioUrl, 0, 0)]
                        /\ fs' = StartDisk(StartDisk(fs, id, "video", body.videoUrl),
                                           id, "audio", body.audioUrl)
                   ELSE /\ ex' = [ex EXCEPT ![id] = e]
                        /\ runs' = [runs EXCEPT ![id].fetch = @ + 1]
                        /\ fetch' = [fetch EXCEPT ![id]["input"] = StartFetch(body.videoUrl, 0, 0)]
                        /\ fs' = StartDisk(fs, id, "input", body.videoUrl)
        /\ UNCHANGED <<tasks, obj, sends, now, crashed, trace, served, failure>>

\* ------------------------------------------------------- Poll, Fetch-result
\* A Poll that answers a failed task with an error response.
PollResponseFails(id) ==
    IF id \notin tasks
    THEN [op |-> "poll", id |-> id, code |-> 404, status |-> Null, error |-> MsgNoTask]
    ELSE IF obj[id].status = "error"
    THEN [op |-> "poll", id |-> id, code |-> 500, status |-> Null, error |-> obj[id].error]
    ELSE [op |-> "poll", id |-> id, code |-> 200, status |-> obj[id].status, error |-> obj[id].error]

\* GET /task/:taskId, lines 882-891.
PollResponse(id) ==
    IF id \notin tasks
    THEN Response("poll", id, 404, Null, MsgNoTask)
    ELSE Response("poll", id, 200, obj[id].status, obj[id].error)

\* A Poll that forgets a task once it has reported its failure.
PollReapsFailed(id) ==
    /\ ~crashed
    /\ resp' = PollResponse(id)
    /\ tasks' = IF id \in tasks /\ obj[id].status = "error" THEN tasks \ {id} ELSE tasks
    /\ UNCHANGED <<obj, ex, fetch, fs, sends, now, nextId, crashed, trace, served, runs, failure>>

Poll(id) ==
    /\ ~crashed
    /\ resp' = PollResponse(id)
    /\ UNCHANGED <<tasks, obj, ex, fetch, fs, sends, now, nextId, crashed, trace, served, runs, failure>>

\* A handler that answers every refusal as an unknown task.
FileResponseCollapsed(id) ==
    IF id \notin tasks \/ obj[id].status # "done"
    THEN [op |-> "file", id |-> id, code |-> 404, status |-> Null, error |-> MsgNoTask]
    ELSE IF obj[id].outputFile = Null \/ fs[<<id, obj[id].outputFile>>] = NoFile
    THEN [op |-> "file", id |-> id, code |-> 404, status |-> Null, error |-> MsgNoFile]
    ELSE [op |-> "file", id |-> id, code |-> 200, status |-> Null, error |-> Null]

\* A handler that starts the transfer without looking for the file.
FileResponseUnchecked(id) ==
    IF id \notin tasks
    THEN [op |-> "file", id |-> id, code |-> 404, status |-> Null, error |-> MsgNoTask]
    ELSE IF obj[id].status # "done"
    THEN [op |-> "file", id |-> id, code |-> 400, status |-> Null, error |-> MsgStatus(obj[id].status)]
    ELSE [op |-> "file", id |-> id, code |-> 200, status |-> Null, error |-> Null]

\* GET /task/:taskId/file, lines 897-901: the three refusals; code 200 stands
\* for res.download having been started.
FileResponse(id) ==
    IF id \notin tasks
    THEN Response("file", id, 404, Null, MsgNoTask)
    ELSE IF obj[id].status # "done"
    THEN Response("file", id, 400, Null, MsgStatus(obj[id].status))
    ELSE IF obj[id].outputFile = Null \/ ~Exists(fs, id, obj[id].outputFile)
    THEN Response("file", id, 404, Null, MsgNoFile)
    ELSE Response("file", id, 200, Null, Null)

FetchResult(id) ==
    /\ ~crashed
    /\ resp' = FileResponse(id)
    /\ IF FileResponse(id).code = 200
       THEN /\ sends[id] < MaxSends
            /\ sends' = [sends EXCEPT ![id] = @ + 1]
       ELSE UNCHANGED sends
    /\ UNCHANGED <<tasks, obj, ex, fetch, fs, now, nextId, crashed, trace, served, runs, failure>>

\* A callback that cleans the file up and keeps the registry entry.
SendEndKeepsEntry(id, err) ==
    /\ ~crashed
    /\ sends[id] > 0
    /\ sends' = [sends EXCEPT ![id] = @ - 1]
    /\ fs' = cleanupFiles(fs, id, {obj[id].outputFile})
    /\ served' = [served EXCEPT ![id] = IF err THEN @ ELSE @ + 1]
    /\ resp' = NoResp
    /\ UNCHANGED <<tasks, obj, ex, fetch, now, nextId, crashed, trace, runs, failure>>

\* A callback that leaves the file and the entry in place when the transfer
\* failed.
SendEndRetryable(id, err) ==
    /\ ~crashed
    /\ sends[id] > 0
    /\ sends' = [sends EXCEPT ![id] = @ - 1]
    /\ fs' = IF err THEN fs ELSE cleanupFiles(fs, id, {obj[id].outputFile})
    /\ tasks' = IF err THEN tasks ELSE tasks \ {id}
    /\ served' = [served EXCEPT ![id] = IF err THEN @ ELSE @ + 1]
    /\ resp' = NoResp
    /\ UNCHANGED <<obj, ex, fetch, now, nextId, crashed, trace, runs, failure>>

\* Lines 903-907: the callback of res.download, when the transfer has ended
\* (err: it ended in an error).
SendEnd(id, err) ==
    /\ ~crashed
    /\ sends[id] > 0
    /\ sends' = [sends EXCEPT ![id] = @ - 1]
    /\ fs' = cleanupFiles(fs, id, {obj[id].outputFile})
    /\ tasks' = tasks \ {id}
    /\ served' = [served EXCEPT ![id] = IF err THEN @ ELSE @ + 1]
    /\ resp' = NoResp
    /\ UNCHANGED <<obj, ex, fetch, now, nextId, crashed, trace, runs, failure>>

\* ----------------------------------------------------------------- sweeper
\* A test that is met at the threshold already.
ExpiredAtThreshold(disk, q, t) == disk[q] # NoFile /\ t - disk[q] >= maxAge

\* Lines 911-924: every file older than maxAge is unlinked.
Expired(disk, q, t) == disk[q] # NoFile /\ t - disk[q] > maxAge

\* A sweeper that also forgets the tasks that have ended.
SweepDropsEntries ==
    /\ ~crashed
    /\ now < MaxNow
    /\ \A id \in TaskIds, s \in Slots :
           Direct(id, s, {"wait", "body"}) => ~Expired(fs, Path(id, s), now + 1)
    /\ now' = now + 1
    /\ fs' = [q \in TaskIds \X Suffixes |-> IF Expired(fs, q, now + 1) THEN NoFile ELSE fs[q]]
    /\ tasks' = {id \in tasks : obj[id].status \notin {"done", "error"}}
    /\ resp' = NoResp
    /\ UNCHANGED <<obj, ex, fetch, sends, nextId, crashed, trace, served, runs, failure>>

Sweep ==
    /\ ~crashed
    /\ now < MaxNow
    /\ \A id \in TaskIds, s \in Slots :
           Direct(id, s, {"wait", "body"}) => ~Expired(fs, Path(id, s), now + 1)
    /\ now' = now + 1
    /\ fs' = [q \in TaskIds \X Suffixes |-> IF Expired(fs, q, now + 1) THEN NoFile ELSE fs[q]]
    /\ resp' = NoResp
    /\ UNCHANGED <<tasks, obj, ex, fetch, sends, nextId, crashed, trace, served, runs, failure>>

\* The callbacks of the downloadFile calls of request id.
FetchStep(id) ==
    \E s \in Slots :
        \/ \E location \in PlainUrls \ {NoUrl} : FetchRedirect(id, s, location)
        \/ \E code \in {404, 500} : FetchStatus(id, s, code)
        \/ FetchOk(id, s)
        \/ FetchData(id, s)
        \/ FetchFinish(id, s)
        \/ FetchError(id, s)
        \/ FetchTimeout(id, s)
        \/ YtdlpError(id, s)
        \/ \E code \in {0, 1}, wrote \in BOOLEAN : YtdlpClose(id, s, code, wrote)

\* The callbacks of task id, its fetches and subprocesses (which a call of a
\* synchronous endpoint has as well) and the end of a transfer of its result.
TaskStep(id) ==
    \/ FetchStep(id)
    \/ ExtractError(id)
    \/ \E code \in {0, 1}, wrote \in BOOLEAN : ExtractClose(id, code, wrote)
    \/ FfmpegEnd(id)
    \/ \E wrote \in BOOLEAN : FfmpegError(id, wrote)
    \/ \E err \in BOOLEAN : SendEnd(id, err)

\* The bodies that differ in what the handlers branch on before the command
\* of the pipeline is built.
PlainBodies ==
    {b \in Bodies : /\ b.trim \in {NoTrim, [start |-> 0, end |-> MaxSec]}
                     /\ b.audioFormat = Undefined
                     /\ b.videoUrl \in PlainUrls /\ b.audioUrl \in PlainUrls
                     /\ b.formatId = NoFormat}

\* One task from submission to the removal of its entry, with every request
\* a client can make about it and the sweeper.
Next ==
    \/ \E body \in PlainBodies : nextId = 1 /\ Submit(body)
    \/ TaskStep(1)
    \/ \E id \in TaskIds : Poll(id)
    \/ \E id \in TaskIds : FetchResult(id)
    \/ Sweep

Spec == Init /\ [][Next]_vars

\* MaxTasks tasks running concurrently: every step that writes the registry,
\* a task, an executor or the disk.  Poll and the refusals of the handlers
\* assign resp only, and the sweeper assigns now and fs only.
NextTasks ==
    \/ \E body \in PlainBodies : Submit(body) /\ nextId' # nextId
    \/ \E id \in TaskIds : TaskStep(id)
    \/ \E id \in TaskIds : FetchResult(id) /\ sends' # sends

SpecTasks == Init /\ [][NextTasks]_vars

\* ------------------------------------------------------------- fairness
\* The events that end a stage of request id: a response that is not a
\* redirect, its chunks and its end, the failure and the 30 s timeout of a
\* request (lines 120-154), and the exit or failure of a subprocess.  A
\* transfer or a subprocess that eventually completes or reports an error
\* delivers one of them as long as one is due.
Progress(id) ==
    \/ \E s \in Slots :
          \/ \E code \in {404, 500} : FetchStatus(id, s, code)
          \/ FetchOk(id, s)
          \/ FetchData(id, s)
          \/ FetchFinish(id, s)
          \/ FetchError(id, s)
          \/ FetchTimeout(id, s)
          \/ YtdlpError(id, s)
          \/ \E code \in {0, 1}, wrote \in BOOLEAN : YtdlpClose(id, s, code, wrote)
    \/ ExtractError(id)
    \/ \E code \in {0, 1}, wrote \in BOOLEAN : ExtractClose(id, code, wrote)
    \/ FfmpegEnd(id)
    \/ \E wrote \in BOOLEAN : FfmpegError(id, wrote)

\* Concurrent tasks whose transfers and subprocesses all come to an end.
SpecTasksFair == SpecTasks /\ \A id \in TaskIds : WF_vars(Progress(id))

\* One request with every body, a task or a call of a synchronous endpoint,
\* from the request to the last callback it leaves behind.
NextRequests ==
    \/ \E body \in Bodies : nextId = 1 /\ Submit(body)
    \/ \E body \in SyncBodies : nextId = 1 /\ SyncRequest(body)
    \/ TaskStep(1)
    \/ \E s \in Slots, location \in Urls \ PlainUrls : FetchRedirect(1, s, location)
    \/ \E err \in BOOLEAN : ProbeEnd(1, err)
    \/ DownloadEnd(1)
    \/ FetchResult(1)

SpecRequests == Init /\ [][NextRequests]_vars

\* ------------------------------------------------------------ POST /parse
\* The entries of info.formats that yt-dlp prints, with the properties the
\* handler reads: vcodec and acodec (a codec name, 'none', or absent), url,
\* height (0: absent), format_note and tbr (NoTbr: absent).  format_id is the
\* place of the entry in the list.  A property has one value where no
\* expression of the handler that is modelled reads it.
NoHeight == 0
NoTbr == 0 - 1
RawFormats ==
    {f \in [vcodec : {"avc1", "none", Undefined}, acodec : {"mp4a", "none", Undefined},
            url : {"u", Undefined}, height : {NoHeight, 720, 1080},
            format_note : {"hd", Undefined}, tbr : {NoTbr, 0, 1}, format_id : {0}] :
        /\ f.url = Undefined =>
              f.vcodec = "avc1" /\ f.acodec = "mp4a" /\ f.height = NoHeight /\ f.tbr = NoTbr
        /\ f.vcodec = "none" => f.height = NoHeight
        /\ f.format_note # Undefined => f.height = NoHeight /\ f.vcodec # "none" /\ f.url # Undefined
        /\ f.tbr # NoTbr => f.vcodec # "avc1" /\ f.acodec # "none"}
RECURSIVE Lists(_)
Lists(n) ==
    IF n = 0 THEN {<<>>}
    ELSE Lists(n - 1) \cup {Append(l, f) : l \in {m \in Lists(n - 1) : Len(m) = n - 1}, f \in RawFormats}
WithIds(l) == [i \in DOMAIN l |-> [l[i] EXCEPT !.format_id = i]]

\* What the yt-dlp run of /parse prints: text that is no JSON, an object
\* without formats, or an object with at most n formats.
NotJson == [json |-> FALSE, hasFormats |-> FALSE, formats |-> <<>>]
Infos(n) ==
    {NotJson, [json |-> TRUE, hasFormats |-> FALSE, formats |-> <<>>]}
        \cup {[json |-> TRUE, hasFormats |-> TRUE, formats |-> WithIds(l)] : l \in Lists(n)}

\* The three filters, lines 247-259.
mergedFormats(f) == f.vcodec # "none" /\ f.acodec # "none" /\ f.url # Undefined
videoOnlyFormats(f) ==
    f.vcodec # "none" /\ (f.acodec = "none" \/ f.acodec = Undefined) /\ f.url # Undefined
audioOnlyFormats(f) ==
    (f.vcodec = "none" \/ f.vcodec = Undefined) /\ f.acodec # "none" /\ f.url # Undefined

\* `${f.height}p`
HeightLabel(h) ==
    CASE h = 720 -> "720p"
      [] h = 1080 -> "1080p"
      [] OTHER -> "undefinedp"

\* Lines 263, 279: f.format_note || f.height ? `${f.height}p` : 'default'.
quality(f) ==
    IF f.format_note # Undefined \/ f.height # NoHeight THEN HeightLabel(f.height) ELSE "default"

\* Lines 264-274, 280-292 and 298-308: the descriptor pushed for an entry.
Descriptor(f, hasVideo, hasAudio) ==
    [id |-> f.format_id,
     quality |-> IF hasVideo THEN quality(f) ELSE "audio (kbps)",
     hasVideo |-> hasVideo, hasAudio |-> hasAudio, bitrate |-> f.tbr]

\* Array.prototype.sort with a comparator that is the difference of two
\* keys: the elements in the order of their keys, elements of equal keys in
\* the order they had.  s is a sequence of [k, v].
RECURSIVE Insert(_, _)
Insert(x, s) ==
    IF s = <<>> THEN <<x>>
    ELSE IF x.k < Head(s).k THEN <<x>> \o s
    ELSE <<Head(s)>> \o Insert(x, Tail(s))
RECURSIVE sort(_)
sort(s) == IF s = <<>> THEN <<>> ELSE Insert(s[Len(s)], sort(SubSeq(s, 1, Len(s) - 1)))

\* Line 296: the audio-only entries sorted by (b.tbr || 0) - (a.tbr || 0);
\* bestAudio is the first of them.
Tbr(f) == IF f.tbr = NoTbr THEN 0 ELSE f.tbr
sortedAudio(l) ==
    LET a == SelectSeq(l, audioOnlyFormats)
        keyed == sort([i \in DOMAIN a |-> [k |-> 0 - Tbr(a[i]), v |-> a[i]]])
    IN  [i \in DOMAIN keyed |-> keyed[i].v]

\* Lines 312-318: qualityOrder.indexOf, -1 for a label that is not in it.
qualityOrder == <<"2160p", "1440p", "1080p", "720p", "480p", "360p", "240p", "144p">>
indexOf(label) ==
    IF \E i \in DOMAIN qualityOrder : qualityOrder[i] = label
    THEN (CHOOSE i \in DOMAIN qualityOrder : qualityOrder[i] = label) - 1
    ELSE 0 - 1

\* Lines 242-318: the formats of the response for info.formats = l.
resolveFormats(l) ==
    LET m == SelectSeq(l, mergedFormats)
        v == SelectSeq(l, videoOnlyFormats)
        a == sortedAudio(l)
        pushed == [i \in DOMAIN m |-> Descriptor(m[i], TRUE, TRUE)]
                      \o [i \in DOMAIN v |-> Descriptor(v[i], TRUE, FALSE)]
                      \o (IF a = <<>> THEN <<>> ELSE <<Descriptor(a[1], FALSE, TRUE)>>)
        keyed == sort([i \in DOMAIN pushed |-> [k |-> indexOf(pushed[i].quality), v |-> pushed[i]]])
    IN  [i \in DOMAIN keyed |-> keyed[i].v]

\* The closure of a call of the handler of /parse.
ParseEx(pc) == [NoEx EXCEPT !.pc = pc, !.op = "parse", !.action = "parse"]

\* POST /parse up to its await, lines 193-214; id numbers the call.
Parse(url) ==
    /\ ~crashed
    /\ IF url = NoUrl
       THEN /\ resp' = Response("parse", 0, 400, Null, MsgMissingParseUrl)
            /\ UNCHANGED <<ex, nextId, runs>>
       ELSE /\ nextId <= MaxTasks
            /\ nextId' = nextId + 1
            /\ ex' = [ex EXCEPT ![nextId] = ParseEx("parse")]
            /\ runs' = [runs EXCEPT ![nextId].extract = @ + 1]
            /\ resp' = NoResp
    /\ UNCHANGED <<tasks, obj, fetch, fs, sends, now, crashed, trace, served, failure>>

\* yt-dlp 'error', lines 224-226, and the catch block, lines 340-343.
ParseError(id) ==
    /\ ~crashed
    /\ ex[id].pc = "parse"
    /\ ex' = [ex EXCEPT ![id].pc = "end"]
    /\ resp' = Response("parse", id, 500, Null, MsgYtdlpSpawn)
    /\ failure' = NoteFailure(id, MsgYtdlpSpawn)
    /\ UNCHANGED <<tasks, obj, fetch, fs, sends, now, nextId, crashed, trace, served, runs>>

\* yt-dlp 'close', lines 228-238, and the rest of the handler.
ParseClose(id, code, info) ==
    /\ ~crashed
    /\ ex[id].pc = "parse"
    /\ IF code # 0 \/ ~info.json
       THEN LET msg == IF code # 0 THEN MsgYtdlpParse ELSE MsgJson
            IN  /\ ex' = [ex EXCEPT ![id].pc = "end"]
                /\ resp' = Response("parse", id, 500, Null, msg)
                /\ failure' = NoteFailure(id, msg)
       ELSE /\ ex' = [ex EXCEPT ![id].pc = "end", ![id].info = info.formats,
                                ![id].formats = IF info.hasFormats
                                                THEN resolveFormats(info.formats) ELSE <<>>]
            /\ resp' = Response("parse", id, 200, Null, Null)
            /\ UNCHANGED failure
    /\ UNCHANGED <<tasks, obj, fetch, fs, sends, now, nextId, crashed, trace, served, runs>>

\* One call of /parse, from the request to its response.
NextParse ==
    \/ \E url \in Urls : nextId = 1 /\ Parse(url)
    \/ ParseError(1)
    \/ ex[1].pc = "parse" /\ \E code \in {0, 1}, info \in Infos(MaxFormats) : ParseClose(1, code, info)

SpecParse == Init /\ [][NextParse]_vars

\* ================================================================= claims
Terminal == {"done", "error"}
Pipelined == {"merge", "trim", "extract-audio"}
Lifecycles ==
    {<<>>, <<"pending">>, <<"pending", "processing">>,
     <<"pending", "processing", "done">>, <<"pending", "processing", "error">>}
NotFound(op, id) == Response(op, id, 404, Null, MsgNoTask)
Fetched(id) == \A s \in Required(ex[id].action) : fetch[id][s].p = "fulfilled"

\* C1: once the status of a task is done or error, no step of any task, of
\* a fetch or subprocess that completes late, or of a result fetch changes it.
StatusIsFinal ==
    [][\A id \in TaskIds : obj[id].status \in Terminal => obj'[id].status = obj[id].status]_vars

\* C1 witness: a merge failed by its video fetch, whose audio fetch exceeded
\* the cap and finished afterwards, while the other task is still processing.
LateCompletionSeen ==
    \E id \in TaskIds, other \in TaskIds :
        /\ ex[id].action = "merge" /\ obj[id].status = "error"
        /\ failure[id] = HttpMsg(404)
        /\ fetch[id]["audio"].x = "drain"
        /\ other # id /\ obj[other].status = "processing"

\* C2: the values written to the status of a task are pending, processing
\* and then done or error, in this order, starting when the submit handler
\* creates the task; the status is the last value written.
LifecycleOrder ==
    \A id \in TaskIds :
        /\ trace[id] \in Lifecycles
        /\ id \in tasks => trace[id] # <<>>
        /\ trace[id] # <<>> => obj[id].status = trace[id][Len(trace[id])]
        /\ trace[id] = <<>> => obj[id].status = "none" /\ id \notin tasks

\* C2 witness: a task that failed and a poll that saw it.
FailedLifecycleSeen ==
    /\ resp.op = "poll" /\ resp.status = "error"
    /\ trace[resp.id] = <<"pending", "processing", "error">>

\* C3: the artifact of a task is returned to at most one Fetch-result request.
ArtifactServedOnce == \A id \in TaskIds : served[id] <= 1

\* C4: a transfer of the artifact is started for a done task only; once a
\* transfer has returned the artifact the task is not registered and its
\* output file is gone, and a Poll or Fetch-result answers TaskNotFound.
ServedThenGone ==
    /\ \A id \in TaskIds :
        /\ sends[id] > 0 \/ served[id] > 0 => obj[id].status = "done"
        /\ served[id] > 0 =>
            /\ id \notin tasks
            /\ ~Exists(fs, id, obj[id].outputFile)
    /\ resp.op = "file" /\ resp.code = 200 => obj[resp.id].status = "done"
    /\ resp.op \in {"poll", "file"} /\ served[resp.id] > 0 => resp = NotFound(resp.op, resp.id)

\* C4 witness: a Fetch-result after the artifact was returned.
FetchAfterServed == resp.op = "file" /\ served[resp.id] > 0

\* C5: the first error a fetch, the pipeline selection or a subprocess of a
\* task reports is the task's error text, the task went from processing to
\* error, and no stage of a task is started twice or after the failure.
FailureRecorded ==
    \A id \in TaskIds :
        /\ failure[id] # Null =>
            /\ obj[id].status = "error"
            /\ obj[id].error = failure[id]
            /\ trace[id] = <<"pending", "processing", "error">>
            /\ ex[id].pc = "end"
        /\ runs[id].fetch <= 1 /\ runs[id].pipeline <= 1 /\ runs[id].extract <= 1
        /\ runs[id].fetch + runs[id].extract <= 1

\* C5 witness: a merge whose pipeline run failed.
PipelineFailureSeen ==
    \E id \in TaskIds :
        ex[id].action = "merge" /\ failure[id] = MsgFfmpeg /\ obj[id].status = "error"

\* C6: a task whose outputFile is set is done.
OutputPathOnlyWhenDone ==
    \A id \in TaskIds : obj[id].outputFile # Null => obj[id].status = "done"

\* C6 witness: a poll that saw a task processing, which has no outputFile yet
\* although its fetch is complete and its pipeline runs.
ProcessingPolled ==
    /\ resp.op = "poll" /\ resp.status = "processing"
    /\ ex[resp.id].pc = "ffmpeg"
    /\ obj[resp.id].outputFile = Null

\* C7: a task whose error is set has status error, and a poll that answers
\* with a task's error answers with status error.
ErrorOnlyWhenFailed ==
    /\ \A id \in TaskIds : obj[id].error # Null => obj[id].status = "error"
    /\ resp.op = "poll" /\ resp.code = 200 /\ resp.error # Null => resp.status = "error"

\* C7 witness: a poll that returned an error text.
ErrorPolled == resp.op = "poll" /\ resp.code = 200 /\ resp.error = MsgTimeout

\* C8: the pipeline of a task runs only when every fetch it requires has been
\* fulfilled, never when one was rejected, and a task with a pipeline becomes
\* done only in the step in which its running pipeline reports its end.
PipelineAfterFetches ==
    /\ [](\A id \in TaskIds :
            /\ runs[id].pipeline > 0 => Fetched(id)
            /\ ex[id].pc = "ffmpeg" => obj[id].status = "processing"
            /\ (\E s \in Required(ex[id].action) : fetch[id][s].p = "rejected")
                   => runs[id].pipeline = 0 /\ ex[id].pc # "ffmpeg")
    /\ [][\A id \in TaskIds :
            /\ ex[id].pc # "ffmpeg" /\ ex'[id].pc = "ffmpeg" =>
                 \A s \in Required(ex[id].action) : fetch'[id][s].p = "fulfilled"
            /\ (ex[id].action \in Pipelined /\ obj[id].status # "done" /\ obj'[id].status = "done")
                 => ex[id].pc = "ffmpeg" /\ ex'[id].pc = "end"]_vars

\* C8 witness: the pipeline of a merge running, both its fetches fulfilled.
MergePipelineRunning ==
    \E id \in TaskIds :
        /\ ex[id].action = "merge" /\ ex[id].pc = "ffmpeg"
        /\ fetch[id]["video"].p = "fulfilled" /\ fetch[id]["audio"].p = "fulfilled"

\* C9: when a merge, trim or extract-audio task is done, none of its fetched
\* input files exists and its outputFile is the output file of the pipeline.
InputsGoneWhenDone ==
    \A id \in TaskIds :
        obj[id].status = "done" /\ ex[id].action \in Pipelined =>
            /\ \A s \in Required(ex[id].action) : ~Exists(fs, id, s)
            /\ obj[id].outputFile = "output"

\* C9 witness: a merge that is done with its output on disk.
MergeDone ==
    \E id \in TaskIds :
        ex[id].action = "merge" /\ obj[id].status = "done" /\ Exists(fs, id, "output")

\* C10: a Poll or Fetch-result for an id that is not registered answers
\* TaskNotFound; a Fetch-result for a registered task that is not done
\* answers 400 with the task's status, which is not the TaskNotFound answer.
NotFoundAndNotReadyDiffer ==
    /\ resp.op \in {"poll", "file"} /\ resp.id \notin tasks => resp = NotFound(resp.op, resp.id)
    /\ resp.op = "file" /\ resp.id \in tasks /\ obj[resp.id].status # "done" =>
        /\ resp.code = 400
        /\ resp.error = MsgStatus(obj[resp.id].status)
        /\ resp.code # NotFound("file", resp.id).code
        /\ resp.error # NotFound("file", resp.id).error

\* C10 witness: a Fetch-result refused because the task is still processing.
NotReadySeen == resp.op = "file" /\ resp.code = 400 /\ obj[resp.id].status = "processing"

\* C11: a direct transfer that receives more than the cap is rejected at the
\* chunk that crosses the cap, receives no chunk after that one, and leaves
\* no file; a task fails for the size only when a transfer crossed the cap.
SizeCapStopsTransfer ==
    \A id \in TaskIds :
        /\ \A s \in Slots :
              fetch[id][s].kind = "direct" /\ fetch[id][s].downloaded > MAX_FILE_SIZE =>
                  /\ fetch[id][s].p = "rejected"
                  /\ ~Exists(fs, id, s)
                  /\ fetch[id][s].downloaded = MAX_FILE_SIZE + 1
        /\ failure[id] = MsgSize =>
              \E s \in Slots : fetch[id][s].downloaded > MAX_FILE_SIZE

\* C12: when a direct transfer has been rejected, for whatever reason, its
\* file does not exist.
FailedFetchLeavesNoFile ==
    \A id \in TaskIds, s \in Slots :
        fetch[id][s].kind = "direct" /\ fetch[id][s].p = "rejected" => ~Exists(fs, id, s)

\* C13: a direct transfer follows fewer than MaxHops redirects (a cap of
\* MaxHops - 1): no request that MaxHops redirects led to is ever issued.
RedirectsCapped ==
    \A id \in TaskIds, s \in Slots : fetch[id][s].hops < MaxHops

\* C14: when a synchronous endpoint answers with a failure, no temp file of
\* the request exists.
SyncFailureLeavesNoFile ==
    resp.op \in SyncOps /\ resp.code = 500 =>
        \A suf \in Suffixes : ~Exists(fs, resp.id, suf)

\* C15: a task whose transcoding run failed has no output file.
FailedRunLeavesNoOutput ==
    \A id \in TaskIds :
        ex[id].op = "task" /\ obj[id].status = "error" /\ failure[id] = MsgFfmpeg =>
            ~Exists(fs, id, "output")

\* C16: a download task whose direct transfer was answered with a status
\* other than 200, 301 and 302 is registered and failed with the message of
\* that status, and a Poll for it answers 200 with status error and that
\* message.
UpstreamStatusFailsTask ==
    /\ \A id \in TaskIds :
          ex[id].action = "download" /\ failure[id] \in {"HTTP 404", "HTTP 500"} =>
              /\ id \in tasks
              /\ obj[id].status = "error"
              /\ obj[id].error = failure[id]
    /\ resp.op = "poll" /\ ex[resp.id].action = "download"
           /\ failure[resp.id] \in {"HTTP 404", "HTTP 500"} =>
              resp = [op |-> "poll", id |-> resp.id, code |-> 200,
                      status |-> "error", error |-> failure[resp.id]]

\* C16 witness: a Poll that answered for a download task failed by a 404.
UpstreamStatusPolled ==
    /\ resp.op = "poll" /\ resp.code = 200 /\ resp.error = "HTTP 404"
    /\ ex[resp.id].action = "download" /\ fetch[resp.id]["input"].x = "closed"

AsyncMissing(b) ==
    \/ b.videoUrl = NoUrl
    \/ b.action = "merge" /\ b.audioUrl = NoUrl
    \/ b.action = "trim" /\ b.trim = NoTrim
SyncMissing(b) ==
    \/ b.videoUrl = NoUrl
    \/ SyncAction(b) = "merge" /\ b.audioUrl = NoUrl
    \/ SyncAction(b) = "trim" /\ (b.trim.start = NoTime \/ b.trim.end = NoTime)
Rejected == resp'.code = 400 /\ UNCHANGED <<tasks, obj, ex, fetch, fs, runs, nextId>>

\* C17: a request that lacks a required parameter (the source URL, the audio
\* URL of a merge, the range or a time of a trim) is answered with an error
\* response by a step that registers nothing and starts no fetch and no
\* subprocess.
MissingParameterRejected ==
    [][/\ \A b \in Bodies : AsyncMissing(b) /\ Submit(b) => Rejected
       /\ \A b \in SyncBodies : SyncMissing(b) /\ SyncRequest(b) => Rejected]_vars

Recognised(e) ==
    /\ e.op = "convert" => e.format \in {"mp4", "webm", "mp3", "m4a"}
    /\ e.action = "extract-audio" => e.format \in {"mp3", "m4a", "aac", "wav"}
    /\ e.op \in {"task", "download"} => e.action \in {"download", "merge", "trim", "extract-audio"}

\* C18: for a request whose action, container or audio format is not
\* recognised no transcoding run is started and no result is produced, and a
\* task with an unknown action fails with the unsupported-operation error.
UnrecognisedFailsUnsupported ==
    \A id \in TaskIds :
        ~Recognised(ex[id]) =>
            /\ runs[id].pipeline = 0
            /\ ex[id].pc \notin {"ffmpeg", "send"}
            /\ obj[id].status # "done"
            /\ ex[id].op = "task" /\ ex[id].action \notin {"download", "merge", "trim", "extract-audio"}
                  => obj[id].error = MsgUnsupported

\* C19: no transcoding run is started for a trim whose end is not after its
\* start; the run of a trim is a stream copy with a zeroed timestamp base
\* that starts at start and lasts end - start.
InvalidRangeRejected ==
    \A id \in TaskIds :
        ex[id].action = "trim" =>
            /\ ex[id].trim.end <= ex[id].trim.start => runs[id].pipeline = 0
            /\ runs[id].pipeline > 0 =>
                  /\ ex[id].command.options = {"-c copy", "-avoid_negative_ts make_zero"}
                  /\ ex[id].command.start = ex[id].trim.start
                  /\ ex[id].command.duration = ex[id].trim.end - ex[id].trim.start

\* C20: convert uses the pair of the tier for the qualities high, medium
\* and low and the pair of medium for every other quality it is given.
QualityMapsToTier ==
    \A id \in TaskIds :
        ex[id].op = "convert" /\ ex[id].quality # Undefined =>
            ex[id].settings =
                CASE ex[id].quality = "high" -> [crf |-> "18", preset |-> "slow"]
                  [] ex[id].quality = "low" -> [crf |-> "28", preset |-> "fast"]
                  [] OTHER -> [crf |-> "23", preset |-> "medium"]

HasPlatform(url) ==
    \E i \in DOMAIN url : url[i] \in {"youtube.com", "youtu.be", "googlevideo.com"}
HasManifestSuffix(url) == Len(url) > 0 /\ url[Len(url)] = ".m3u8"

\* C21: downloadFile hands a URL to yt-dlp exactly when the URL holds the
\* name of a streaming platform or ends with .m3u8, and transfers every
\* other URL itself; a redirect target is treated as the first URL is.
DelegatesByPattern ==
    \A id \in TaskIds, s \in Slots :
        fetch[id][s].kind # "none" =>
            (fetch[id][s].kind = "ytdlp" <=>
                HasPlatform(fetch[id][s].url) \/ HasManifestSuffix(fetch[id][s].url))


\* C22: the selector of the first yt-dlp run of a download is the formatId
\* itself when the formatId is one of 18, 22, 36, 17, 5 and 6, the formatId
\* followed by +bestaudio/best for any other formatId, and
\* bestvideo+bestaudio/best when no formatId is given.
SelectorFollowsAllowList ==
    \A id \in TaskIds :
        ex[id].pc = "extract" =>
            ex[id].formatArg =
                IF ex[id].formatId = <<>> THEN <<"bestvideo+bestaudio/best">>
                ELSE IF ex[id].formatId \in {<<"18">>, <<"22">>, <<"36">>, <<"17">>, <<"5">>, <<"6">>}
                THEN ex[id].formatId
                ELSE ex[id].formatId \o <<"+bestaudio/best">>

\* C23: a yt-dlp download that ends becomes a result only while its output
\* file exists, and the one further run that follows an exit with 0 and no
\* file uses the selector best and is the second run of the request.
RetriesOnceThenReports ==
    [][\A id \in TaskIds :
          ex[id].pc \in {"extract", "extract2"} /\ ex'[id].pc # ex[id].pc =>
              /\ obj'[id].status = "done" \/ ex'[id].pc = "send" => Exists(fs', id, "output")
              /\ ex'[id].pc = "extract2" =>
                    ex'[id].formatArg = <<"best">> /\ runs'[id].extract = 2]_vars


Parsed(id) == ex[id].op = "parse" /\ ex[id].pc = "end"

\* C24: every entry of info.formats that has a url is in exactly one of the
\* three buckets merged, video-only and audio-only, whatever vcodec and
\* acodec are (a name, 'none' or absent).
EntryInOneBucket ==
    \A id \in TaskIds :
        Parsed(id) =>
            \A i \in DOMAIN ex[id].info :
                LET f == ex[id].info[i]
                IN  f.url # Undefined =>
                        (IF mergedFormats(f) THEN 1 ELSE 0)
                            + (IF videoOnlyFormats(f) THEN 1 ELSE 0)
                            + (IF audioOnlyFormats(f) THEN 1 ELSE 0) = 1

Rank(label) ==
    CASE label = "2160p" -> 1 [] label = "1440p" -> 2 [] label = "1080p" -> 3
      [] label = "720p" -> 4 [] label = "480p" -> 5 [] label = "360p" -> 6
      [] label = "240p" -> 7 [] label = "144p" -> 8 [] OTHER -> 9
Pushed(d) == IF d.hasVideo /\ d.hasAudio THEN 1 ELSE IF d.hasVideo THEN 2 ELSE 3
Encountered(d, e) == Pushed(d) < Pushed(e) \/ (Pushed(d) = Pushed(e) /\ d.id < e.id)

\* C25: the formats of the response are in the order 2160p, 1440p, 1080p,
\* 720p, 480p, 360p, 240p, 144p, every other label after these, and
\* descriptors of one rank in the order they were pushed.
RankedOrder ==
    \A id \in TaskIds :
        \A i, j \in DOMAIN ex[id].formats :
            i < j =>
                /\ Rank(ex[id].formats[i].quality) <= Rank(ex[id].formats[j].quality)
                /\ Rank(ex[id].formats[i].quality) = Rank(ex[id].formats[j].quality)
                      => Encountered(ex[id].formats[i], ex[id].formats[j])

Bitrate(f) == IF f.tbr < 0 THEN 0 ELSE f.tbr
AudioOnly(l) == {i \in DOMAIN l : audioOnlyFormats(l[i])}
Descriptors(out, i, video) == {k \in DOMAIN out : out[k].id = i /\ out[k].hasVideo = video}

\* C26: the response has at most one audio-only descriptor, that of the
\* first audio-only entry of the highest bitrate (no bitrate counting as
\* 0), and exactly one descriptor for every merged and every video-only
\* entry.
OneBestAudio ==
    \A id \in TaskIds :
        Parsed(id) =>
            LET l == ex[id].info
                out == ex[id].formats
            IN  /\ Cardinality({k \in DOMAIN out : ~out[k].hasVideo}) <= 1
                /\ \A i \in AudioOnly(l) :
                      (/\ \A j \in AudioOnly(l) : Bitrate(l[j]) <= Bitrate(l[i])
                       /\ \A j \in AudioOnly(l) : j < i => Bitrate(l[j]) < Bitrate(l[i]))
                          => Cardinality(Descriptors(out, i, FALSE)) = 1
                /\ \A i \in DOMAIN l :
                      mergedFormats(l[i]) \/ videoOnlyFormats(l[i])
                          => Cardinality(Descriptors(out, i, TRUE)) = 1


\* C27: a run of the sweeper deletes every file that was last modified more
\* than maxAge before the run and leaves every other file as it was.
SweepRemovesOldOnly ==
    [][now' # now =>
          \A q \in TaskIds \X Suffixes :
              fs[q] # NoFile =>
                  IF now' - fs[q] > maxAge THEN fs'[q] = NoFile ELSE fs'[q] = fs[q]]_vars

\* C27 witness: a failed trim after a run of the sweeper that deleted its
\* input and left its partial output, which has just reached maxAge.
SweptOldKeptNew ==
    \E id \in TaskIds :
        /\ ex[id].action = "trim" /\ obj[id].status = "error" /\ failure[id] = MsgFfmpeg
        /\ ~Exists(fs, id, "input")
        /\ Exists(fs, id, "output") /\ now - fs[<<id, "output">>] = maxAge


\* A step of the executor of task a: the closure of its runDownloadTask
\* call, one of its fetches or the count of its subprocesses changes.
Executor(a) ==
    ex'[a] # ex[a] \/ fetch'[a] # fetch[a] \/ runs'[a] # runs[a] \/ failure'[a] # failure[a]

\* C28: no step of the executor of a task changes the status, outputFile,
\* filename or error of another task.
ExecutorWritesOwnEntry ==
    [][\A a \in TaskIds : Executor(a) => \A b \in TaskIds \ {a} : obj'[b] = obj[b]]_vars

\* C28 witness: two tasks in the fetch stage at once, one of them failed by
\* its own fetch while the other is still processing.
OneFailedOtherRunning ==
    \E a, b \in TaskIds :
        /\ a # b /\ {a, b} \subseteq tasks
        /\ obj[a].status = "error" /\ failure[a] = MsgTimeout
        /\ obj[b].status = "processing" /\ ex[b].pc = "fetch" /\ runs[a].fetch > 0


\* The writers of a temp-file path: the open write streams and running
\* yt-dlp subprocesses of a fetch on its slot path, and the yt-dlp or ffmpeg
\* subprocess of the executor on the output path.
Writers(id, suf) ==
    IF suf \in Slots THEN fetch[id][suf].open
    ELSE IF ex[id].pc \in {"extract", "extract2", "ffmpeg"} THEN 1 ELSE 0

EntryRemovedOnlyByFetchResult ==
    /\ [](\A id \in TaskIds : obj[id].status = "error" => id \in tasks)
    /\ [][\A id \in TaskIds :
              id \in tasks /\ id \notin tasks' =>
                  /\ obj[id].status = "done"
                  /\ sends[id] > 0 /\ sends'[id] = sends[id] - 1]_vars

\* The entry of a Done task is gone after a transfer of its result that
\* succeeded, in a run in which the sweeper has run as well.
EntryGoneAfterServing ==
    \E id \in TaskIds :
        /\ id \notin tasks /\ obj[id].status = "done"
        /\ served[id] > 0 /\ now > 0


\* A Done task that is registered and whose output file is gone.
Orphaned(id) ==
    /\ id \in tasks /\ obj[id].status = "done"
    /\ obj[id].outputFile # Null /\ ~Exists(fs, id, obj[id].outputFile)

\* C31: the sweeper deletes by age without consulting the registry, so a
\* Done, registered task can have lost its output file; a Fetch-result in
\* that state answers that the file is missing, starts no transfer and
\* leaves the task registered.
SweptOutputIsReportedMissing ==
    [][\A id \in TaskIds :
          Orphaned(id) /\ resp'.op = "file" /\ resp'.id = id =>
              /\ resp'.code = 404 /\ resp'.error = MsgNoFile
              /\ sends' = sends /\ tasks' = tasks /\ obj' = obj /\ fs' = fs]_vars

\* The sweeper has removed the output of a pipeline, which had written it,
\* and a Fetch-result for the task, Done and registered, was answered with
\* the missing file.
FetchAfterSweep ==
    \E id \in TaskIds :
        /\ Orphaned(id) /\ ex[id].action # "download" /\ now > 0
        /\ resp.op = "file" /\ resp.id = id /\ resp.error = MsgNoFile


\* C32: when every direct transfer and every subprocess eventually completes
\* or reports an error, every submitted task eventually is Done or Failed.
EveryTaskEnds ==
    \A id \in TaskIds :
        (id \in tasks /\ obj[id].status \in {"pending", "processing"})
            ~> (obj[id].status \in {"done", "error"})


\* C33: in the step that marks a task Done, whatever the action, the file at
\* its output path exists.
DoneHasOutput ==
    [][\A id \in TaskIds :
          obj[id].status # "done" /\ obj'[id].status = "done" =>
              obj'[id].outputFile # Null /\ Exists(fs', id, obj'[id].outputFile)]_vars


\* C34: when a transfer that a Fetch-result started ends, in success or in
\* failure, the task is not registered and its output file is gone; after a
\* transfer that failed no Fetch-result starts another one.
SendEndsConsumeTask ==
    /\ [][\A id \in TaskIds :
              sends'[id] < sends[id] =>
                  id \notin tasks' /\ ~Exists(fs', id, obj[id].outputFile)]_vars
    /\ [](\A id \in TaskIds :
              obj[id].status = "done" /\ id \notin tasks =>
                  /\ ~Exists(fs, id, obj[id].outputFile)
                  /\ FileResponse(id).code = 404)

\* A transfer of the artifact failed and none succeeded: the task is gone,
\* and a Fetch-result for it was answered with TaskNotFound.
FetchAfterFailedSend ==
    \E id \in TaskIds :
        /\ obj[id].status = "done" /\ id \notin tasks
        /\ served[id] = 0 /\ sends[id] = 0
        /\ resp = NotFound("file", id)


\* C35: a Poll, and a Fetch-result that is refused (unknown id, task not
\* Done, output file missing), change neither the registry nor the temp files.
ReadsChangeNothing ==
    [][resp'.op = "poll" \/ (resp'.op = "file" /\ resp'.code # 200) =>
          tasks' = tasks /\ obj' = obj /\ fs' = fs /\ sends' = sends]_vars

\* A Fetch-result was refused for a task that is being processed and has a
\* temp file on disk.
RefusedWhileProcessing ==
    \E id \in tasks, s \in Slots :
        /\ obj[id].status = "processing" /\ Exists(fs, id, s)
        /\ resp.op = "file" /\ resp.id = id /\ resp.code = 400


\* C36: after a direct transfer has exceeded the size cap, a further chunk
\* of the same response raises no unhandled exception (no second unlink of
\* the file that is gone), and the end of the stream leaves the fetch failed.
ChunksAfterCapHarmless ==
    /\ [][\A id \in TaskIds, s \in Slots :
              /\ fetch[id][s].downloaded > MAX_FILE_SIZE
              /\ fetch'[id][s].downloaded > fetch[id][s].downloaded
              => ~crashed']_vars
    /\ [](\A id \in TaskIds, s \in Slots :
              fetch[id][s].downloaded > MAX_FILE_SIZE => fetch[id][s].p = "rejected")

====
